---- MODULE Spec2Model ----
(***************************************************************************)
(* A model of the AptosAI framework: the TradingBot polling loop           *)
(* (examples/Agents/TradingBot.ts) and the AptosAI facade with its plugin  *)
(* registry (src/core/AptosAI.ts), and the DeFiAdvisorAgent operations     *)
(* analyzePortfolio and suggestOptimalSwap.                                *)
(*                                                                         *)
(* Strings whose content matters are sequences of one-token strings, so    *)
(* that equality, substring search and numeric parsing are computed.       *)
(* Time is counted in units of the loop's polling interval (30 000 ms).    *)
(***************************************************************************)
EXTENDS Integers, Sequences, FiniteSets, TLC

\* ---------------------------------------------------------------- bounds
MaxStarts == 2      \* start() invocations pending at one time
MaxDirect == 1      \* direct monitorAndTrade() invocations pending at one time
MaxTime == 2        \* the clock stops advancing here
MinTradeInterval == 2   \* the configured config.minTradeInterval, in polling intervals

\* ------------------------------------------------------- program constants
PollInterval == 1               \* 30000 ms, the unit of time
MaxPriceImpactTenths == 10      \* 1.0 (percent), in tenths

VARIABLES
    \* TradingBot
    isRunning,          \* TradingBot.isRunning
    lastTrade,          \* TradingBot.lastTrade: Null or a time
    errorListener,      \* whether an 'error' listener is attached (bot.on)
    now,                \* Date.now()
    pc,                 \* where each invocation of start()/monitorAndTrade() is
    dec,                \* the decision a cycle is acting on (amount, reasoning)
    err,                \* the error a finished cycle rejected with
    out,                \* what the last step did, in order: calls, writes, emits, throws
    sinceStop,          \* history: the submissions the loops of start() issued since
                        \* stop() was last called on a RUNNING bot; Null once start()
                        \* is accepted again, and before the first such stop()
    \* AptosAI
    plugins,            \* AptosAI.plugins: plugin name -> plugin, NoPlugin where unset
    lastRegistered,     \* history: the plugin last passed to registerPlugin, per name
    replaced,           \* history: the names registerPlugin was called for more than once
    op,                 \* the last call made on the AptosAI instance and its outcome
    sub,                \* AptosAI.submitTransaction: the signer and the invocations
    sel,                \* the best-quote selection: its input and what it returned
    swap,               \* DeFiAdvisorAgent.suggestOptimalSwap: the invocation
    pf                  \* DeFiAdvisorAgent.analyzePortfolio: the invocation

botVars == <<isRunning, lastTrade, errorListener, now, pc, dec, err, out, sinceStop>>
apiVars == <<plugins, lastRegistered, replaced, op>>
flowVars == <<sub, sel, swap, pf>>
vars == <<botVars, apiVars, flowVars>>

\* ---------------------------------------------------------------- strings
Null == -1
Undefined == <<"undefined">>
Digits == {"0", "1", "2", "3", "4", "5", "6", "7", "8", "9"}
DigitVal(c) ==
    CASE c = "0" -> 0 [] c = "1" -> 1 [] c = "2" -> 2 [] c = "3" -> 3 [] c = "4" -> 4
      [] c = "5" -> 5 [] c = "6" -> 6 [] c = "7" -> 7 [] c = "8" -> 8 [] OTHER -> 9

\* BigInt(s) for a string s: the integer its digits spell, 0 for the empty
\* string, and NaI (it throws) when s holds anything else or is undefined.
NaI == -1
RECURSIVE DigitsValue(_)
DigitsValue(s) ==
    IF s = <<>> THEN 0
    ELSE 10 * DigitsValue(SubSeq(s, 1, Len(s) - 1)) + DigitVal(s[Len(s)])
BigInt(s) ==
    IF \A i \in 1..Len(s) : s[i] \in Digits THEN DigitsValue(s) ELSE NaI

\* s.includes(t)
Includes(s, t) ==
    \E i \in 1..(Len(s) - Len(t) + 1) : SubSeq(s, i, i + Len(t) - 1) = t

\* parseFloat(s), in tenths: the longest prefix of the form d+ or d+.d is read
\* and what follows it is ignored; NaN when s does not start with a digit.
NaN == -1
RECURSIVE IntPrefixLen(_, _)
IntPrefixLen(s, i) ==
    IF i <= Len(s) /\ s[i] \in Digits THEN IntPrefixLen(s, i + 1) ELSE i - 1
ParseFloatTenths(s) ==
    LET n == IntPrefixLen(s, 1) IN
    IF n = 0 THEN NaN
    ELSE LET whole == DigitsValue(SubSeq(s, 1, n)) IN
         IF n + 2 <= Len(s) /\ s[n + 1] = "." /\ s[n + 2] \in Digits
         THEN 10 * whole + DigitVal(s[n + 2])
         ELSE 10 * whole

\* ------------------------------------------------- AptosAI: account balance
Resource(t, v) == [type |-> t, value |-> v]     \* value is data.coin.value
ResourceTypes == {<<"APT">>, <<"USDC">>, <<"CoinStore<", "APT", ">">>,
                  <<"0x1::", "LiquidityPool", "::LP">>}
CoinValues == {Undefined, <<>>, <<"0">>, <<"1">>, <<"2">>}
Resources == {Resource(t, v) : t \in ResourceTypes, v \in CoinValues}
ResourceLists(n) == UNION {[1..k -> Resources] : k \in 0..n}

RpcError == "RPC error"
Ok(v) == [ok |-> TRUE, value |-> v, error |-> <<>>]
Fail(e) == [ok |-> FALSE, value |-> Undefined, error |-> e]

\* what client.getAccountResources answers: the resources, or a failure
Fetches(n) == {[ok |-> FALSE, resources |-> <<>>]}
              \cup {[ok |-> TRUE, resources |-> rs] : rs \in ResourceLists(n)}

\* resources.find((r) => r.type === coinType): the first match, 0 for none
Find(resources, coinType) ==
    LET hits == {i \in 1..Len(resources) : resources[i].type = coinType} IN
    IF hits = {} THEN 0 ELSE CHOOSE i \in hits : \A j \in hits : i <= j

Truthy(v) == v # Undefined /\ v # <<>>

\* mutant: a resource whose type contains coinType is taken for the coin
GetAccountBalanceBySubstring(fetch, coinType) ==
    IF ~fetch.ok THEN Fail(<<RpcError>>)
    ELSE LET hits == {i \in 1..Len(fetch.resources) : Includes(fetch.resources[i].type, coinType)}
             i == IF hits = {} THEN 0 ELSE CHOOSE k \in hits : \A j \in hits : k <= j
         IN IF i # 0 /\ Truthy(fetch.resources[i].value)
            THEN Ok(fetch.resources[i].value)
            ELSE Ok(<<"0">>)

\* AptosAI.getAccountBalance, given what the resource fetch answered
GetAccountBalance(fetch, coinType) ==
    IF ~fetch.ok THEN Fail(<<RpcError>>)
    ELSE LET i == Find(fetch.resources, coinType) IN
         IF i # 0 /\ Truthy(fetch.resources[i].value)
         THEN Ok(fetch.resources[i].value)
         ELSE Ok(<<"0">>)

\* ------------------------------------------------- AptosAI: plugin registry
MaxPlugins == 2
NoPlugin == 0
PluginIds == 1..MaxPlugins          \* LiquidityPoolPlugin instances
PluginNames == {"liquidityPool", "staking", "farm"}
PluginActions == {"getPoolInfo", "calculateSwap", "unknownAction"}
NoQuote == [estimatedOutput |-> Undefined, priceImpact |-> <<>>]
PluginOk(h, q, pools) ==
    [ok |-> TRUE, handler |-> h, quote |-> q, pools |-> pools, error |-> <<>>]
PluginFail(h, e) ==
    [ok |-> FALSE, handler |-> h, quote |-> NoQuote, pools |-> <<>>, error |-> e]
IsLiquidityPool(r) == Includes(r.type, <<"LiquidityPool">>)

\* LiquidityPoolPlugin.calculateSwap(poolAddress, amount)
CalculateSwap(amount) ==
    [estimatedOutput |-> amount, priceImpact |-> <<"0", ".", "1", "%">>]

\* mutant: an unrecognised action is answered instead of rejected
LiquidityPoolExecuteLenient(h, action, params, rpc) ==
    CASE action = "getPoolInfo" ->
            IF rpc.ok THEN PluginOk(h, NoQuote, SelectSeq(rpc.resources, IsLiquidityPool))
            ELSE PluginFail(h, <<RpcError>>)
      [] OTHER -> PluginOk(h, CalculateSwap(params.amount), <<>>)

\* LiquidityPoolPlugin.execute(action, params) of instance h; rpc is what the
\* node answers to getPoolInfo's resource fetch
LiquidityPoolExecute(h, action, params, rpc) ==
    CASE action = "getPoolInfo" ->
            IF rpc.ok THEN PluginOk(h, NoQuote, SelectSeq(rpc.resources, IsLiquidityPool))
            ELSE PluginFail(h, <<RpcError>>)
      [] action = "calculateSwap" -> PluginOk(h, CalculateSwap(params.amount), <<>>)
      [] OTHER -> PluginFail(h, <<"Unknown action", action>>)

\* mutant: an unregistered name falls back to the liquidityPool plugin
ExecutePluginActionFallback(plugs, pluginName, action, params, rpc) ==
    IF plugs[pluginName] = NoPlugin
    THEN IF plugs["liquidityPool"] = NoPlugin
         THEN PluginFail(NoPlugin, <<"Plugin not found", pluginName>>)
         ELSE LiquidityPoolExecute(plugs["liquidityPool"], action, params, rpc)
    ELSE LiquidityPoolExecute(plugs[pluginName], action, params, rpc)

\* AptosAI.executePluginAction on the registry plugs
ExecutePluginAction(plugs, pluginName, action, params, rpc) ==
    IF plugs[pluginName] = NoPlugin
    THEN PluginFail(NoPlugin, <<"Plugin not found", pluginName>>)
    ELSE LiquidityPoolExecute(plugs[pluginName], action, params, rpc)

\* mutant: a name that is taken keeps its plugin
RegisterPluginKeepFirst(plugs, name, plugin) ==
    IF plugs[name] # NoPlugin THEN plugs ELSE [plugs EXCEPT ![name] = plugin]

\* mutant: registering starts the Map afresh
RegisterPluginExclusive(plugs, name, plugin) ==
    [n \in PluginNames |-> IF n = name THEN plugin ELSE NoPlugin]

\* AptosAI.registerPlugin
RegisterPlugin(plugs, name, plugin) == [plugs EXCEPT ![name] = plugin]

\* --------------------------------------------- calls on an AptosAI instance
MaxResources == 2       \* resources an account holds
CoinTypes == {<<"APT">>, <<"USDC">>}
PluginParams == {[poolAddress |-> a, amount |-> m] :
                    a \in {Undefined, <<"0xpool">>}, m \in {Undefined, <<"1">>}}
NoParams == [poolAddress |-> Undefined, amount |-> Undefined]
NoFetch == [ok |-> FALSE, resources |-> <<>>]
NoReply == PluginFail(NoPlugin, <<>>)
\* what the node answers to getPoolInfo's resource fetch
PoolFetches ==
    {NoFetch} \cup {[ok |-> TRUE, resources |-> rs] :
                      rs \in {<<>>, <<Resource(<<"APT">>, <<"1">>)>>,
                              <<Resource(<<"APT">>, <<"1">>),
                                Resource(<<"0x1::", "LiquidityPool", "::LP">>, <<"2">>)>>}}
NoOp == [call |-> "", name |-> "", action |-> "", params |-> NoParams, plugin |-> NoPlugin,
         reply |-> NoReply, coinType |-> <<>>, fetch |-> NoFetch, balance |-> Fail(<<>>)]

\* ---------------------------------------------- AptosAI: submitTransaction
MaxSubmits == 2         \* submitTransaction invocations kept at one time
Submits == 1..MaxSubmits
PrivateKeys == {Undefined, <<>>, <<"a", "b">>}      \* privateKey?: absent, "", a hex string
Payloads == {"transfer", "swap"}
NoTx == [pc |-> "none", payload |-> "", calls |-> <<>>, result |-> Fail(<<>>)]
NotInitialized == "Account not initialized. Please provide private key."

\* mutant: only an absent key leaves the account unset
HasAccountIfDefined(privateKey) == privateKey # Undefined

\* AptosAI.constructor: this.account is set when privateKey is truthy
HasAccount(privateKey) == Truthy(privateKey)

\* no submitTransaction was called on an AptosAI constructed without a key
SubmitIdle == sub = [key |-> Undefined, tx |-> [p \in Submits |-> NoTx]]

\* -------------------------------------------- DeFiAdvisorAgent: best quote
MaxQuotes == 3          \* quotes in one selection
\* outputAmount: decimal strings, the empty string, and a quote without one
OutputAmounts == {<<"9", "0", "0">>, <<"9", "5", "0">>, <<"1", "0", "0", "0">>,
                  <<"0", "9", "5", "0">>, <<>>, Undefined}
QuoteLists(n) == UNION {[1..k -> OutputAmounts] : k \in 0..n}
Throws == 0             \* no quote is returned: the selection threw

\* mutant: the later of two equal quotes is kept
BetterOrEqual(quotes, best, current) ==
    IF BigInt(quotes[current]) = NaI \/ BigInt(quotes[best]) = NaI THEN Throws
    ELSE IF BigInt(quotes[current]) >= BigInt(quotes[best]) THEN current ELSE best

\* the reduce callback on the quotes at positions best and current: the
\* position it keeps, Throws when BigInt rejects either outputAmount
Better(quotes, best, current) ==
    IF BigInt(quotes[current]) = NaI \/ BigInt(quotes[best]) = NaI THEN Throws
    ELSE IF BigInt(quotes[current]) > BigInt(quotes[best]) THEN current ELSE best

\* quotes.reduce(callback) without an initial value: the first quote is the
\* accumulator and the callback runs from the second on; an empty list throws
RECURSIVE Reduce(_, _, _)
Reduce(quotes, best, i) ==
    IF best = Throws \/ i > Len(quotes) THEN best
    ELSE Reduce(quotes, Better(quotes, best, i), i + 1)
SelectBest(quotes) == IF quotes = <<>> THEN Throws ELSE Reduce(quotes, 1, 2)

NoSel == [quotes |-> <<>>, done |-> FALSE, best |-> Throws]
SelIdle == sel = NoSel

\* ------------------------------------------------ DeFiAdvisorAgent: flows
Dexes == <<"pancake", "liquidswap">>
NoSwapQuote == [estimatedOutput |-> Undefined, priceImpact |-> <<>>, outputAmount |-> Undefined]
NoSwapResult == [ok |-> FALSE, recommendation |-> "", quotes |-> <<>>, error |-> <<>>]
NoSwap == [pc |-> "none", amount |-> <<>>, pending |-> {},
           quotes |-> [i \in 1..Len(Dexes) |-> NoSwapQuote], best |-> Throws,
           asked |-> FALSE, adviceFailed |-> FALSE, result |-> NoSwapResult]
SwapIdle == swap = NoSwap
NoAdviceInput == [positions |-> <<>>, patterns |-> <<>>, total |-> 0]
NoPfResult == [ok |-> FALSE, positions |-> <<>>, history |-> <<>>, advice |-> <<>>,
               error |-> <<>>]
\* resources, transactions, patternsCall, adviceCall: "none", "pending", "ok", "failed"
NoPf == [pc |-> "none",
         resources |-> "none", resourceList |-> <<>>,
         transactions |-> "none", transactionList |-> <<>>,
         positions |-> <<>>, total |-> 0,
         patternsCall |-> "none", patternsInput |-> <<>>, patterns |-> <<>>,
         adviceCall |-> "none", adviceInput |-> NoAdviceInput,
         result |-> NoPfResult]
PfIdle == pf = NoPf

\* the operations of the other components have not been called
FlowsIdle == SubmitIdle /\ SelIdle /\ SwapIdle /\ PfIdle

\* a newly constructed AptosAI: `plugins` is an empty Map
ApiFresh ==
    /\ plugins = [n \in PluginNames |-> NoPlugin]
    /\ lastRegistered = [n \in PluginNames |-> NoPlugin]
    /\ replaced = {}
    /\ op = NoOp

\* the TradingBot is left as constructed
BotIdle ==
    /\ isRunning = FALSE /\ lastTrade = Null /\ errorListener = FALSE /\ now = 0
    /\ pc = [p \in (1..(MaxStarts + MaxDirect)) |-> "none"]
    /\ dec = [p \in (1..(MaxStarts + MaxDirect)) |-> [amount |-> <<>>, reasoning |-> ""]]
    /\ err = [p \in (1..(MaxStarts + MaxDirect)) |-> <<>>]
    /\ out = <<>>
    /\ sinceStop = Null

\* aptosAI.registerPlugin(name, plugin)
RegisterPluginCall(name, plugin) ==
    /\ plugins' = RegisterPlugin(plugins, name, plugin)
    /\ lastRegistered' = [lastRegistered EXCEPT ![name] = plugin]
    /\ replaced' = IF lastRegistered[name] # NoPlugin THEN replaced \cup {name} ELSE replaced
    /\ op' = [NoOp EXCEPT !.call = "registerPlugin", !.name = name, !.plugin = plugin]
    /\ UNCHANGED botVars
    /\ UNCHANGED flowVars

\* aptosAI.executePluginAction(name, action, params), to its settlement
ExecutePluginActionCall(name, action, params, rpc) ==
    /\ op' = [NoOp EXCEPT !.call = "executePluginAction", !.name = name, !.action = action,
                          !.params = params,
                          !.reply = ExecutePluginAction(plugins, name, action, params, rpc)]
    /\ UNCHANGED <<plugins, lastRegistered, replaced>>
    /\ UNCHANGED botVars
    /\ UNCHANGED flowVars

\* aptosAI.getAccountBalance(address, coinType), to its settlement, for the
\* coinType and the node's answer that op holds
GetAccountBalanceCall ==
    /\ op.call = ""
    /\ op' = [op EXCEPT !.call = "getAccountBalance",
                        !.balance = GetAccountBalance(op.fetch, op.coinType)]
    /\ UNCHANGED <<plugins, lastRegistered, replaced>>
    /\ UNCHANGED botVars
    /\ UNCHANGED flowVars

RegistryInit == ApiFresh /\ BotIdle /\ FlowsIdle
RegistryNext ==
    \/ \E n \in PluginNames, h \in PluginIds : RegisterPluginCall(n, h)
    \/ \E n \in PluginNames, a \in PluginActions, ps \in PluginParams, rpc \in PoolFetches :
          ExecutePluginActionCall(n, a, ps, rpc)
SpecRegistry == RegistryInit /\ [][RegistryNext]_vars

\* the inputs of one getAccountBalance call
BalanceInit ==
    /\ BotIdle
    /\ FlowsIdle
    /\ plugins = [n \in PluginNames |-> NoPlugin]
    /\ lastRegistered = [n \in PluginNames |-> NoPlugin]
    /\ replaced = {}
    /\ \E f \in Fetches(MaxResources), c \in CoinTypes :
          op = [NoOp EXCEPT !.coinType = c, !.fetch = f]
BalanceNext == GetAccountBalanceCall
SpecBalance == BalanceInit /\ [][BalanceNext]_vars

\* ------------------------------------------------------------- TradingBot
Loops == 1..MaxStarts
Directs == (MaxStarts + 1)..(MaxStarts + MaxDirect)
Procs == Loops \cup Directs

Amounts == {<<"1">>}                \* trade.amount
Reasonings == {"momentum", "reversal"}
TxIds == {"0xa", "0xb"}
FromToken == <<"APT">>              \* trade.fromToken
NoDec == [amount |-> <<>>, reasoning |-> ""]

\* the registry of the bot's AptosAI after TradingBot.initializePlugins
BotPlugins == RegisterPlugin([n \in PluginNames |-> NoPlugin], "liquidityPool", 1)
NoRpc == [ok |-> FALSE, resources |-> <<>>]
\* what the node answers to the bot's balance query
BotFetches ==
    {NoRpc} \cup {[ok |-> TRUE, resources |-> rs] :
                    rs \in {<<>>, <<Resource(<<"CoinStore<", "APT", ">">>, <<"2">>)>>,
                            <<Resource(FromToken, <<"1">>)>>, <<Resource(FromToken, <<"2">>)>>}}

Ev(k, p, name, args) == [k |-> k, by |-> p, name |-> name, args |-> args]

\* mutant: the boundary is skipped too
DebounceSkipInclusive(lt, t, mti) == lt # Null /\ t - lt <= mti

\* the guard at the top of monitorAndTrade
DebounceSkip(lt, t, mti) == lt # Null /\ t - lt < mti

\* mutant: the balance is not compared with the amount
ValidateTradeNoBalance(p, amount, fetch) ==
    LET bal == GetAccountBalance(fetch, FromToken)
        q == ExecutePluginAction(plugins, "liquidityPool", "calculateSwap",
                                 [poolAddress |-> Undefined, amount |-> amount], NoRpc)
    IN
    IF ~bal.ok
    THEN [error |-> bal.error, did |-> <<Ev("reject", p, "getAccountBalance", bal.error)>>]
    ELSE [error |-> <<>>,
          did |-> <<Ev("result", p, "getAccountBalance", bal.value),
                    Ev("call", p, "executePluginAction", <<"liquidityPool", "calculateSwap">>),
                    Ev("result", p, "executePluginAction", q.quote.priceImpact)>>]

\* TradingBot.validateTrade once the balance query settled with `fetch`:
\* the error it throws (<<>> when the trade passes) and what it did, in order
ValidateTrade(p, amount, fetch) ==
    LET bal == GetAccountBalance(fetch, FromToken)
        q == ExecutePluginAction(plugins, "liquidityPool", "calculateSwap",
                                 [poolAddress |-> Undefined, amount |-> amount], NoRpc)
        gotBal == <<Ev("result", p, "getAccountBalance", bal.value)>>
        asked == gotBal \o <<Ev("call", p, "executePluginAction", <<"liquidityPool", "calculateSwap">>)>>
        gotQuote == asked \o <<Ev("result", p, "executePluginAction", q.quote.priceImpact)>>
    IN
    IF ~bal.ok
    THEN [error |-> bal.error, did |-> <<Ev("reject", p, "getAccountBalance", bal.error)>>]
    ELSE IF BigInt(bal.value) = NaI \/ BigInt(amount) = NaI
    THEN [error |-> <<"SyntaxError">>, did |-> gotBal]
    ELSE IF BigInt(bal.value) < BigInt(amount)
    THEN [error |-> <<"Insufficient balance for trade">>, did |-> gotBal]
    ELSE IF ~q.ok
    THEN [error |-> q.error, did |-> asked \o <<Ev("reject", p, "executePluginAction", q.error)>>]
    ELSE IF ParseFloatTenths(q.quote.priceImpact) > MaxPriceImpactTenths
    THEN [error |-> <<"Price impact too high">>, did |-> gotQuote]
    ELSE [error |-> <<>>, did |-> gotQuote]

TCF == "Trading cycle failed"
MAF == "Market analysis failed"

InCycle == {"market", "decision", "balance", "submit"}
\* where monitorAndTrade leaves its caller when it settles
Resolved(p) == IF p \in Loops THEN "cycleOk" ELSE "none"
Rejected(p) == IF p \in Loops THEN "cycleFail" ELSE "none"

\* monitorAndTrade up to its first await, after the caller did `before`
BeginCycle(p, before) ==
    LET skip == DebounceSkip(lastTrade, now, MinTradeInterval) IN
    /\ pc' = [pc EXCEPT ![p] = IF skip THEN Resolved(p) ELSE "market"]
    /\ out' = before \o <<Ev("call", p, "monitorAndTrade", <<>>)>>
                     \o (IF skip THEN <<Ev("resolve", p, "monitorAndTrade", <<>>)>>
                                 ELSE <<Ev("call", p, "getMarketData", <<>>)>>)

\* monitorAndTrade's catch: the cycle rejects with the wrapped error
FailCycle(p, before, e) ==
    /\ pc' = [pc EXCEPT ![p] = Rejected(p)]
    /\ err' = [err EXCEPT ![p] = IF p \in Loops THEN <<TCF>> \o e ELSE <<>>]
    /\ dec' = [dec EXCEPT ![p] = NoDec]
    /\ out' = before \o <<Ev("reject", p, "monitorAndTrade", <<TCF>> \o e)>>

\* mutant: the loop goes on whatever isRunning is
LoopTestAlways(p, before) == BeginCycle(p, before)

\* the while condition of start(), evaluated after `before`
LoopTest(p, before) ==
    IF isRunning
    THEN BeginCycle(p, before)
    ELSE /\ pc' = [pc EXCEPT ![p] = "none"]
         /\ out' = before \o <<Ev("resolve", p, "start", <<>>)>>

\* EventEmitter.emit('error', e): delivered when a listener is attached,
\* thrown at the emitter's caller when none is
ErrorDelivered(listening) == listening

BotInit ==
    /\ isRunning = FALSE
    /\ lastTrade = Null
    /\ errorListener \in BOOLEAN
    /\ now = 0
    /\ pc = [p \in Procs |-> "none"]
    /\ dec = [p \in Procs |-> NoDec]
    /\ err = [p \in Procs |-> <<>>]
    /\ out = <<>>
    /\ sinceStop = Null
    /\ plugins = BotPlugins
    /\ lastRegistered = BotPlugins
    /\ replaced = {}
    /\ op = NoOp
    /\ FlowsIdle

\* a new invocation takes the first free slot of its kind
FreeSlot(p, S) == p \in S /\ pc[p] = "none" /\ \A q \in S : q < p => pc[q] # "none"

\* mutant: start() without its guard
StartUnguarded(p) ==
    /\ FreeSlot(p, Loops)
    /\ isRunning' = TRUE
    /\ sinceStop' = Null
    /\ BeginCycle(p, <<Ev("emit", p, "started", <<>>)>>)
    /\ UNCHANGED <<lastTrade, errorListener, now, dec, err>>
    /\ UNCHANGED apiVars
    /\ UNCHANGED flowVars

\* TradingBot.start, up to its first await
Start(p) ==
    /\ FreeSlot(p, Loops)
    /\ IF isRunning
       THEN /\ out' = <<Ev("reject", p, "start", <<"Trading bot is already running">>)>>
            /\ UNCHANGED <<sinceStop, isRunning, pc>>
       ELSE /\ isRunning' = TRUE
            /\ sinceStop' = Null
            /\ BeginCycle(p, <<Ev("emit", p, "started", <<>>)>>)
    /\ UNCHANGED <<lastTrade, errorListener, now, dec, err>>
    /\ UNCHANGED apiVars
    /\ UNCHANGED flowVars

\* mutant: stop() announces the stop but leaves the bot RUNNING
StopKeepsRunning ==
    /\ out' = <<Ev("emit", 0, "stopped", <<>>)>>
    /\ sinceStop' = (IF isRunning THEN 0 ELSE sinceStop)
    /\ UNCHANGED <<isRunning, lastTrade, errorListener, now, pc, dec, err>>
    /\ UNCHANGED apiVars
    /\ UNCHANGED flowVars

\* TradingBot.stop
Stop ==
    /\ isRunning' = FALSE
    /\ sinceStop' = (IF isRunning THEN 0 ELSE sinceStop)
    /\ out' = <<Ev("emit", 0, "stopped", <<>>)>>
    /\ UNCHANGED <<lastTrade, errorListener, now, pc, dec, err>>
    /\ UNCHANGED apiVars
    /\ UNCHANGED flowVars

\* a direct call of monitorAndTrade, as demo.ts makes
MonitorAndTrade(p) ==
    /\ FreeSlot(p, Directs)
    /\ BeginCycle(p, <<>>)
    /\ UNCHANGED <<sinceStop, isRunning, lastTrade, errorListener, now, dec, err>>
    /\ UNCHANGED apiVars
    /\ UNCHANGED flowVars

\* getMarketData settles
MarketDone(p) ==
    /\ pc[p] = "market"
    /\ \E ok \in BOOLEAN :
        IF ok
        THEN /\ pc' = [pc EXCEPT ![p] = "decision"]
             /\ out' = <<Ev("call", p, "openai", <<>>)>>
             /\ UNCHANGED <<dec, err>>
        ELSE FailCycle(p, <<>>, <<"Failed to fetch market data", RpcError>>)
    /\ UNCHANGED <<sinceStop, isRunning, lastTrade, errorListener, now>>
    /\ UNCHANGED apiVars
    /\ UNCHANGED flowVars

\* the decision call settles: analyzeMarket up to validateTrade's first await
DecisionDone(p) ==
    /\ pc[p] = "decision"
    /\ \/ FailCycle(p, <<>>, <<MAF, "completion failed">>)
       \/ /\ pc' = [pc EXCEPT ![p] = Resolved(p)]         \* shouldTrade = false
          /\ out' = <<Ev("resolve", p, "monitorAndTrade", <<>>)>>
          /\ UNCHANGED <<dec, err>>
       \/ \E a \in Amounts, r \in Reasonings :             \* shouldTrade = true
          /\ pc' = [pc EXCEPT ![p] = "balance"]
          /\ dec' = [dec EXCEPT ![p] = [amount |-> a, reasoning |-> r]]
          /\ out' = <<Ev("call", p, "getAccountBalance", FromToken)>>
          /\ UNCHANGED err
    /\ UNCHANGED <<sinceStop, isRunning, lastTrade, errorListener, now>>
    /\ UNCHANGED apiVars
    /\ UNCHANGED flowVars

\* the balance query settles: the rest of validateTrade, then executeTrade
\* up to the submission
BalanceDone(p) ==
    /\ pc[p] = "balance"
    /\ \E f \in BotFetches :
        LET v == ValidateTrade(p, dec[p].amount, f) IN
        IF v.error = <<>>
        THEN /\ pc' = [pc EXCEPT ![p] = "submit"]
             /\ out' = v.did \o <<Ev("call", p, "submitTransaction", dec[p].amount)>>
             /\ sinceStop' = (IF p \in Loops /\ sinceStop # Null
                              THEN sinceStop + 1 ELSE sinceStop)
             /\ UNCHANGED <<dec, err>>
        ELSE FailCycle(p, v.did, <<MAF>> \o v.error) /\ UNCHANGED sinceStop
    /\ UNCHANGED <<isRunning, lastTrade, errorListener, now>>
    /\ UNCHANGED apiVars
    /\ UNCHANGED flowVars

\* mutant: the trade is announced before lastTrade is recorded
TradeDoneEmitFirst(p, txHash) ==
    /\ lastTrade' = now
    /\ out' = <<Ev("result", p, "submitTransaction", <<txHash>>),
                Ev("emit", p, "trade", <<txHash, dec[p].reasoning>>),
                Ev("set", p, "lastTrade", <<>>),
                Ev("resolve", p, "monitorAndTrade", <<>>)>>
    /\ pc' = [pc EXCEPT ![p] = Resolved(p)]
    /\ dec' = [dec EXCEPT ![p] = NoDec]
    /\ UNCHANGED err

\* what monitorAndTrade does once executeTrade returned txHash
TradeDone(p, txHash) ==
    /\ lastTrade' = now
    /\ out' = <<Ev("result", p, "submitTransaction", <<txHash>>),
                Ev("set", p, "lastTrade", <<>>),
                Ev("emit", p, "trade", <<txHash, dec[p].reasoning>>),
                Ev("resolve", p, "monitorAndTrade", <<>>)>>
    /\ pc' = [pc EXCEPT ![p] = Resolved(p)]
    /\ dec' = [dec EXCEPT ![p] = NoDec]
    /\ UNCHANGED err

\* mutant: a failed submission is stamped as a trade as well
SubmitDoneStampsFailure(p) ==
    /\ pc[p] = "submit"
    /\ \/ \E tx \in TxIds : TradeDone(p, tx)
       \/ /\ FailCycle(p, <<Ev("reject", p, "submitTransaction", <<RpcError>>)>>,
                       <<"Trade execution failed", RpcError>>)
          /\ lastTrade' = now
    /\ UNCHANGED <<sinceStop, isRunning, errorListener, now>>
    /\ UNCHANGED apiVars
    /\ UNCHANGED flowVars

\* the submission settles
SubmitDone(p) ==
    /\ pc[p] = "submit"
    /\ \/ \E tx \in TxIds : TradeDone(p, tx)
       \/ /\ FailCycle(p, <<Ev("reject", p, "submitTransaction", <<RpcError>>)>>,
                       <<"Trade execution failed", RpcError>>)
          /\ UNCHANGED lastTrade
    /\ UNCHANGED <<sinceStop, isRunning, errorListener, now>>
    /\ UNCHANGED apiVars
    /\ UNCHANGED flowVars

\* start() after a cycle that resolved: the 30-second timer is set
LoopSleep(p) ==
    /\ pc[p] = "cycleOk"
    /\ pc' = [pc EXCEPT ![p] = "wait"]
    /\ out' = <<Ev("call", p, "setTimeout", <<>>)>>
    /\ UNCHANGED <<sinceStop, isRunning, lastTrade, errorListener, now, dec, err>>
    /\ UNCHANGED apiVars
    /\ UNCHANGED flowVars

\* start() after the timer fired: the loop condition is tested again
LoopWake(p) ==
    /\ pc[p] = "fired"
    /\ LoopTest(p, <<>>)
    /\ UNCHANGED <<sinceStop, isRunning, lastTrade, errorListener, now, dec, err>>
    /\ UNCHANGED apiVars
    /\ UNCHANGED flowVars

\* start()'s catch after a cycle that rejected
LoopCatch(p) ==
    /\ pc[p] = "cycleFail"
    /\ err' = [err EXCEPT ![p] = <<>>]
    /\ IF ErrorDelivered(errorListener)
       THEN LoopTest(p, <<Ev("emit", p, "error", err[p])>>)
       ELSE /\ pc' = [pc EXCEPT ![p] = "none"]
            /\ out' = <<Ev("reject", p, "start", err[p])>>
    /\ UNCHANGED <<sinceStop, isRunning, lastTrade, errorListener, now, dec>>
    /\ UNCHANGED apiVars
    /\ UNCHANGED flowVars

\* one polling interval passes: the timers that were set fire
Tick ==
    /\ now < MaxTime
    /\ now' = now + PollInterval
    /\ pc' = [p \in Procs |-> IF pc[p] = "wait" THEN "fired" ELSE pc[p]]
    /\ out' = <<>>
    /\ UNCHANGED <<sinceStop, isRunning, lastTrade, errorListener, dec, err>>
    /\ UNCHANGED apiVars
    /\ UNCHANGED flowVars

Next ==
    \/ \E p \in Procs : Start(p)
    \/ Stop
    \/ \E p \in Procs : MonitorAndTrade(p)
    \/ \E p \in Procs : MarketDone(p)
    \/ \E p \in Procs : DecisionDone(p)
    \/ \E p \in Procs : BalanceDone(p)
    \/ \E p \in Procs : SubmitDone(p)
    \/ \E p \in Procs : LoopSleep(p)
    \/ \E p \in Procs : LoopWake(p)
    \/ \E p \in Procs : LoopCatch(p)
    \/ Tick

Spec == BotInit /\ [][Next]_vars

\* ------------------------------------------ AptosAI.submitTransaction steps
Rpc(name, payload) == <<name, payload>>
SetTx(p, t) == sub' = [sub EXCEPT !.tx[p] = t]
SettleTx(p, r) == SetTx(p, [sub.tx[p] EXCEPT !.pc = "done", !.result = r])
IssueTx(p, at, name) ==
    SetTx(p, [sub.tx[p] EXCEPT !.pc = at, !.calls = @ \o <<Rpc(name, sub.tx[p].payload)>>])
IdleButSubmit == UNCHANGED botVars /\ UNCHANGED apiVars /\ UNCHANGED <<sel, swap, pf>>

\* submitTransaction(payload), up to its first await
SubmitTransaction(p, payload) ==
    /\ sub.tx[p].pc \in {"none", "done"}
    /\ IF ~HasAccount(sub.key)
       THEN SetTx(p, [NoTx EXCEPT !.pc = "done", !.payload = payload,
                                  !.result = Fail(<<NotInitialized>>)])
       ELSE SetTx(p, [NoTx EXCEPT !.pc = "generate", !.payload = payload,
                                  !.calls = <<Rpc("generateTransaction", payload)>>])
    /\ IdleButSubmit

\* client.generateTransaction settles
GenerateDone(p) ==
    /\ sub.tx[p].pc = "generate"
    /\ \/ IssueTx(p, "sign", "signTransaction")
       \/ SettleTx(p, Fail(<<"generateTransaction", RpcError>>))
    /\ IdleButSubmit

\* client.signTransaction settles
SignDone(p) ==
    /\ sub.tx[p].pc = "sign"
    /\ \/ IssueTx(p, "submit", "submitTransaction")
       \/ SettleTx(p, Fail(<<"signTransaction", RpcError>>))
    /\ IdleButSubmit

\* client.submitTransaction settles
SubmitRpcDone(p) ==
    /\ sub.tx[p].pc = "submit"
    /\ \/ \E h \in {"0xa", "0xb"} : SettleTx(p, Ok(<<h>>))
       \/ SettleTx(p, Fail(<<"submitTransaction", RpcError>>))
    /\ IdleButSubmit

\* an AptosAI constructed with any of the keys
SubmitInit ==
    /\ BotIdle /\ ApiFresh /\ SelIdle /\ SwapIdle /\ PfIdle
    /\ \E k \in PrivateKeys : sub = [key |-> k, tx |-> [p \in Submits |-> NoTx]]
SubmitNext ==
    \/ \E p \in Submits, pl \in Payloads : SubmitTransaction(p, pl)
    \/ \E p \in Submits : GenerateDone(p)
    \/ \E p \in Submits : SignDone(p)
    \/ \E p \in Submits : SubmitRpcDone(p)
SpecSubmit == SubmitInit /\ [][SubmitNext]_vars

\* ------------------------------------------------- the best-quote selection
\* the selection of suggestOptimalSwap applied to the quotes that sel holds
SelectBestCall ==
    /\ ~sel.done
    /\ sel' = [sel EXCEPT !.done = TRUE, !.best = SelectBest(sel.quotes)]
    /\ UNCHANGED botVars /\ UNCHANGED apiVars /\ UNCHANGED <<sub, swap, pf>>

QuotesInit ==
    /\ BotIdle /\ ApiFresh /\ SubmitIdle /\ SwapIdle /\ PfIdle
    /\ \E qs \in QuoteLists(MaxQuotes) : sel = [NoSel EXCEPT !.quotes = qs]
QuotesNext == SelectBestCall
SpecQuotes == QuotesInit /\ [][QuotesNext]_vars

\* ------------------------------------- DeFiAdvisorAgent.suggestOptimalSwap
SAF == "Swap analysis failed"
SwapAmounts == {<<"1">>, <<"2", "5">>, <<"1", "0", "0">>}
Recommendations == {"take the best quote", "wait"}
\* a DeFiPlugin implementation other than LiquidityPoolPlugin
CustomPlugin == MaxPlugins + 1
CustomQuotes == {[NoSwapQuote EXCEPT !.outputAmount = o, !.priceImpact = <<"0", ".", "1", "%">>] :
                    o \in {<<"9", "0", "0">>, <<"9", "5", "0">>, <<"1", "0", "0", "0">>}}

\* what the caller reads from the object a LiquidityPoolPlugin dispatch
\* resolved with: calculateSwap's object has no outputAmount property
SwapQuoteOf(reply) ==
    [estimatedOutput |-> reply.quote.estimatedOutput,
     priceImpact |-> reply.quote.priceImpact,
     outputAmount |-> Undefined]

\* what one calculateSwap dispatch can settle with: <<TRUE, quote>> or <<FALSE, error>>
DispatchReplies(amount) ==
    IF plugins["liquidityPool"] = CustomPlugin
    THEN {<<TRUE, q>> : q \in CustomQuotes} \cup {<<FALSE, <<RpcError>> >>}
    ELSE LET r == ExecutePluginAction(plugins, "liquidityPool", "calculateSwap",
                                      [poolAddress |-> Undefined, amount |-> amount], NoFetch)
         IN IF r.ok THEN {<<TRUE, SwapQuoteOf(r)>>} ELSE {<<FALSE, r.error>>}

SwapFail(e) == [NoSwapResult EXCEPT !.error = <<SAF>> \o e]
IdleButSwap == UNCHANGED botVars /\ UNCHANGED apiVars /\ UNCHANGED <<sub, sel, pf>>

\* suggestOptimalSwap(fromToken, toToken, amount) up to its first await: one
\* dispatch per entry of dexes
SuggestOptimalSwap(amount) ==
    /\ swap.pc \in {"none", "done"}
    /\ swap' = [NoSwap EXCEPT !.pc = "quotes", !.amount = amount,
                              !.pending = 1..Len(Dexes)]
    /\ IdleButSwap

\* what follows Promise.all once every dispatch resolved: the selection,
\* then the advice call
AfterQuotes(quotes) ==
    LET best == SelectBest([i \in 1..Len(Dexes) |-> quotes[i].outputAmount]) IN
    IF best = Throws
    THEN [swap EXCEPT !.pc = "done", !.pending = {}, !.quotes = quotes,
                      !.result = SwapFail(<<"Cannot convert to a BigInt">>)]
    ELSE [swap EXCEPT !.pc = "advice", !.pending = {}, !.quotes = quotes,
                      !.best = best, !.asked = TRUE]

\* the dispatch for dexes[i] settles
DispatchDone(i) ==
    /\ swap.pc = "quotes" /\ i \in swap.pending
    /\ \E r \in DispatchReplies(swap.amount) :
          IF ~r[1]
          THEN swap' = [swap EXCEPT !.pc = "done", !.pending = {}, !.result = SwapFail(r[2])]
          ELSE LET quotes == [swap.quotes EXCEPT ![i] = r[2]] IN
               IF swap.pending = {i}
               THEN swap' = AfterQuotes(quotes)
               ELSE swap' = [swap EXCEPT !.pending = @ \ {i}, !.quotes = quotes]
    /\ IdleButSwap

\* generateSwapAdvice's completion call settles
SwapAdviceDone ==
    /\ swap.pc = "advice"
    /\ \/ \E r \in Recommendations :
            swap' = [swap EXCEPT !.pc = "done",
                                 !.result = [NoSwapResult EXCEPT !.ok = TRUE, !.recommendation = r,
                                                                 !.quotes = swap.quotes]]
       \/ swap' = [swap EXCEPT !.pc = "done", !.adviceFailed = TRUE,
                               !.result = SwapFail(<<"completion failed">>)]
    /\ IdleButSwap

\* the agent as constructed, "liquidityPool" holding the LiquidityPoolPlugin
\* its constructor registers or a plugin registered in its place
SwapInit ==
    /\ BotIdle /\ SubmitIdle /\ SelIdle /\ SwapIdle /\ PfIdle
    /\ \E h \in PluginIds \cup {CustomPlugin} :
          /\ plugins = RegisterPlugin([n \in PluginNames |-> NoPlugin], "liquidityPool", h)
          /\ lastRegistered = plugins
    /\ replaced = {} /\ op = NoOp
SwapNext ==
    \/ \E a \in SwapAmounts : SuggestOptimalSwap(a)
    \/ \E i \in 1..Len(Dexes) : DispatchDone(i)
    \/ SwapAdviceDone
SpecSwap == SwapInit /\ [][SwapNext]_vars

\* --------------------------------------- DeFiAdvisorAgent.analyzePortfolio
PAF == "Portfolio analysis failed"
MaxPositions == 2       \* resources the analysed account holds
PositionTypes == {<<"0x1::", "LiquidityPool", "::LP">>, <<"0x1::", "Coin">>,
                  <<"0x1::", "Stake", "Farm">>, <<"0x1::", "Farm">>, <<"0x1::", "stake">>}
\* data.value: absent, decimal strings, a string BigInt rejects
PositionValues == {Undefined, <<"1", "0", "0">>, <<"7">>, <<"x">>}
PositionLists(n) ==
    UNION {[1..k -> {Resource(t, v) : t \in PositionTypes, v \in PositionValues}] : k \in 0..n}
\* what getAccountTransactions(address, {limit: 100}) answers
TransactionLists == {<<>>, <<"0xt1">>, <<"0xt1", "0xt2">>}
PatternTexts == {<<"steady accumulation">>, <<"frequent swaps">>}
AdviceTexts == {<<"hold">>, <<"rebalance">>}

\* mutant: farms are not taken for positions
IsDefiPositionNoFarm(r) ==
    \/ Includes(r.type, <<"LiquidityPool">>)
    \/ Includes(r.type, <<"Stake">>)

\* the filter callback of analyzePortfolio
IsDefiPosition(r) ==
    \/ Includes(r.type, <<"LiquidityPool">>)
    \/ Includes(r.type, <<"Stake">>)
    \/ Includes(r.type, <<"Farm">>)
FilterPositions(resources) == SelectSeq(resources, IsDefiPosition)

\* the summation loop from position i on, acc being totalValue so far; NaI
\* when BigInt rejects a value
RECURSIVE SumValues(_, _, _)
SumValues(positions, i, acc) ==
    IF i > Len(positions) THEN acc
    ELSE IF positions[i].value = Undefined THEN SumValues(positions, i + 1, acc)
    ELSE IF BigInt(positions[i].value) = NaI THEN NaI
    ELSE SumValues(positions, i + 1, acc + BigInt(positions[i].value))
TotalValue(positions) == SumValues(positions, 1, 0)

\* mutant: the error is thrown on as it came
PfFailUnwrapped(e) == [NoPfResult EXCEPT !.error = e]

\* the catch of analyzePortfolio
PfFail(e) == [NoPfResult EXCEPT !.error = <<PAF>> \o e]

\* mutant: generateAdvice is handed all the fetched resources
AdviceArgsUnfiltered(resources, positions, patterns, total) ==
    [positions |-> resources, patterns |-> patterns, total |-> total]

\* the arguments of generateAdvice
AdviceArgs(resources, positions, patterns, total) ==
    [positions |-> positions, patterns |-> patterns, total |-> total]

IdleButPf == UNCHANGED botVars /\ UNCHANGED apiVars /\ UNCHANGED <<sub, sel, swap>>

\* analyzePortfolio(address) up to its first await: both fetches are issued
AnalyzePortfolio ==
    /\ pf.pc \in {"none", "done"}
    /\ pf' = [NoPf EXCEPT !.pc = "fetch", !.resources = "pending", !.transactions = "pending"]
    /\ IdleButPf

\* what follows Promise.all once both fetches resolved, for the state f:
\* filter, sum, then the pattern analysis call
AfterFetches(f) ==
    LET positions == FilterPositions(f.resourceList)
        total == TotalValue(positions)
    IN IF total = NaI
       THEN [f EXCEPT !.pc = "done", !.positions = positions,
                      !.result = PfFail(<<"Cannot convert to a BigInt">>)]
       ELSE [f EXCEPT !.pc = "patterns", !.positions = positions, !.total = total,
                      !.patternsCall = "pending", !.patternsInput = f.transactionList]

\* getAccountResources settles
ResourcesDone ==
    /\ pf.pc = "fetch" /\ pf.resources = "pending"
    /\ \/ pf' = [pf EXCEPT !.pc = "done", !.resources = "failed", !.result = PfFail(<<RpcError>>)]
       \/ \E rs \in PositionLists(MaxPositions) :
            LET f == [pf EXCEPT !.resources = "ok", !.resourceList = rs] IN
            pf' = IF pf.transactions = "ok" THEN AfterFetches(f) ELSE f
    /\ IdleButPf

\* getAccountTransactions settles
TransactionsDone ==
    /\ pf.pc = "fetch" /\ pf.transactions = "pending"
    /\ \/ pf' = [pf EXCEPT !.pc = "done", !.transactions = "failed", !.result = PfFail(<<RpcError>>)]
       \/ \E ts \in TransactionLists :
            LET f == [pf EXCEPT !.transactions = "ok", !.transactionList = ts] IN
            pf' = IF pf.resources = "ok" THEN AfterFetches(f) ELSE f
    /\ IdleButPf

\* analyzeTxPatterns' completion call settles; generateAdvice is called
PatternsDone ==
    /\ pf.pc = "patterns"
    /\ \/ pf' = [pf EXCEPT !.pc = "done", !.patternsCall = "failed",
                           !.result = PfFail(<<"completion failed">>)]
       \/ \E t \in PatternTexts :
            pf' = [pf EXCEPT !.pc = "advice", !.patternsCall = "ok", !.patterns = t,
                             !.adviceCall = "pending",
                             !.adviceInput = AdviceArgs(pf.resourceList, pf.positions, t, pf.total)]
    /\ IdleButPf

\* generateAdvice's completion call settles
PfAdviceDone ==
    /\ pf.pc = "advice"
    /\ \/ pf' = [pf EXCEPT !.pc = "done", !.adviceCall = "failed",
                           !.result = PfFail(<<"completion failed">>)]
       \/ \E a \in AdviceTexts :
            pf' = [pf EXCEPT !.pc = "done", !.adviceCall = "ok",
                             !.result = [NoPfResult EXCEPT !.ok = TRUE, !.positions = pf.positions,
                                                           !.history = pf.patterns, !.advice = a]]
    /\ IdleButPf

PortfolioInit == BotIdle /\ ApiFresh /\ SubmitIdle /\ SelIdle /\ SwapIdle /\ PfIdle
PortfolioNext ==
    \/ AnalyzePortfolio
    \/ ResourcesDone
    \/ TransactionsDone
    \/ PatternsDone
    \/ PfAdviceDone
SpecPortfolio == PortfolioInit /\ [][PortfolioNext]_vars

\* ------------------------------------------------------ reading a step's out
Did(k, p, name) ==
    \E i \in 1..Len(out) : out[i].k = k /\ out[i].by = p /\ out[i].name = name
ArgsOf(k, p, name) ==
    out[CHOOSE i \in 1..Len(out) : out[i].k = k /\ out[i].by = p /\ out[i].name = name].args
After(k, p, name) ==
    LET i == CHOOSE j \in 1..Len(out) : out[j].k = k /\ out[j].by = p /\ out[j].name = name
    IN SubSeq(out, i + 1, Len(out))
Count(k, name) == Cardinality({i \in 1..Len(out) : out[i].k = k /\ out[i].name = name})

\* C1 (as claimed): when start()'s catch handles a failed cycle while the bot
\* is RUNNING, an 'error' notification is emitted, start() does not reject,
\* the bot stays RUNNING and the loop begins a further cycle, whether or not
\* an 'error' listener is attached.
C1_FailedCycleKeepsLoop ==
    [][\A p \in Loops :
        (isRunning /\ pc[p] = "cycleFail" /\ pc'[p] # "cycleFail") =>
            /\ Did("emit", p, "error")'
            /\ ~Did("reject", p, "start")'
            /\ isRunning'
            /\ Did("call", p, "monitorAndTrade")']_vars

\* C2: start() while RUNNING rejects with 'already running', emits nothing,
\* starts no cycle and leaves the state RUNNING; start() while IDLE sets
\* RUNNING and emits 'started' exactly once, before the first cycle begins.
C2_StartGuard ==
    [][\A p \in Loops : Start(p) =>
        IF isRunning
        THEN /\ isRunning' /\ pc' = pc
             /\ out' = <<Ev("reject", p, "start", <<"Trading bot is already running">>)>>
        ELSE /\ isRunning'
             /\ Count("emit", "started")' = 1
             /\ out'[1] = Ev("emit", p, "started", <<>>)
             /\ out'[2] = Ev("call", p, "monitorAndTrade", <<>>)]_vars
C2_Witness ==
    /\ isRunning
    /\ \E q \in Loops : pc[q] \in InCycle
    /\ \E p \in Loops : out = <<Ev("reject", p, "start", <<"Trading bot is already running">>)>>

\* C3: while the bot is IDLE and stays IDLE (stop() was called, start() is not
\* called again) no loop begins a cycle, and a loop that reaches its loop
\* condition (after its timer, or in its catch) leaves start().
C3_NoNewCycleAfterStop ==
    [][(~isRunning /\ ~isRunning') =>
        \A p \in Loops :
            /\ ~Did("call", p, "monitorAndTrade")'
            /\ (pc[p] \in {"fired", "cycleFail"} /\ pc'[p] # pc[p]) => pc'[p] = "none"]_vars
\* a cycle in flight when stop() was called still trades
C3_Witness ==
    ~isRunning /\ \E p \in Loops : Did("emit", p, "trade")

\* C4: a cycle that begins with lastTrade set and less than minTradeInterval
\* elapsed resolves at once, having issued no call and emitted nothing, and
\* any other cycle (lastTrade unset, or the interval elapsed) goes on to
\* fetch market data; beginning a cycle never changes lastTrade.
C4_Debounce ==
    [][\A p \in Procs : Did("call", p, "monitorAndTrade")' =>
        /\ lastTrade' = lastTrade
        /\ IF lastTrade # Null /\ now - lastTrade < MinTradeInterval
           THEN /\ After("call", p, "monitorAndTrade")' = <<Ev("resolve", p, "monitorAndTrade", <<>>)>>
                /\ pc'[p] \in {"cycleOk", "none"}
           ELSE /\ After("call", p, "monitorAndTrade")' = <<Ev("call", p, "getMarketData", <<>>)>>
                /\ pc'[p] = "market"]_vars
C4_Witness ==
    /\ lastTrade # Null /\ now - lastTrade < MinTradeInterval
    /\ \E p \in Procs : /\ Did("call", p, "monitorAndTrade")
                        /\ After("call", p, "monitorAndTrade") = <<Ev("resolve", p, "monitorAndTrade", <<>>)>>

\* C5: submitTransaction is called only by a cycle validating a trade decision
\* whose balance query answered at least the amount and whose quote has a
\* price impact of at most 1%; a lower balance rejects the cycle with
\* 'Insufficient balance for trade' and a higher impact with 'Price impact
\* too high', and then nothing is submitted, lastTrade is unchanged and no
\* 'trade' is emitted.
FailsWith(p, msg) ==
    /\ Did("reject", p, "monitorAndTrade")
    /\ ArgsOf("reject", p, "monitorAndTrade") = <<TCF, MAF, msg>>
    /\ ~Did("call", p, "submitTransaction")
    /\ ~Did("emit", p, "trade")
    /\ pc[p] \in {"cycleFail", "none"}
C5_SubmitOnlyIfValid ==
    [][\A p \in Procs :
        /\ Did("call", p, "submitTransaction")' =>
            /\ pc[p] = "balance"
            /\ Did("result", p, "getAccountBalance")'
            /\ BigInt(ArgsOf("result", p, "getAccountBalance")') >= BigInt(dec[p].amount)
            /\ Did("result", p, "executePluginAction")'
            /\ ParseFloatTenths(ArgsOf("result", p, "executePluginAction")') <= MaxPriceImpactTenths
        /\ (/\ Did("result", p, "getAccountBalance")'
            /\ BigInt(ArgsOf("result", p, "getAccountBalance")') < BigInt(dec[p].amount)) =>
                FailsWith(p, "Insufficient balance for trade")' /\ lastTrade' = lastTrade
        /\ (/\ Did("result", p, "executePluginAction")'
            /\ ParseFloatTenths(ArgsOf("result", p, "executePluginAction")') > MaxPriceImpactTenths) =>
                FailsWith(p, "Price impact too high")' /\ lastTrade' = lastTrade]_vars
C5_Witness ==
    \E p \in Procs : /\ FailsWith(p, "Insufficient balance for trade")
                     /\ BigInt(ArgsOf("result", p, "getAccountBalance")) = 0

\* C6: when the submission returns a transaction identifier the cycle sets
\* lastTrade to the current time and then emits exactly one 'trade' carrying
\* that identifier and the decision's reasoning; lastTrade is written and
\* 'trade' emitted in no other step.
C6_TradeRecorded ==
    [][/\ \A p \in Procs :
            /\ (pc[p] = "submit" /\ Did("result", p, "submitTransaction")') =>
                /\ lastTrade' = now
                /\ After("result", p, "submitTransaction")' =
                       <<Ev("set", p, "lastTrade", <<>>),
                         Ev("emit", p, "trade",
                            ArgsOf("result", p, "submitTransaction")' \o <<dec[p].reasoning>>),
                         Ev("resolve", p, "monitorAndTrade", <<>>)>>
            /\ (Did("emit", p, "trade")' \/ Did("set", p, "lastTrade")') =>
                pc[p] = "submit" /\ Did("result", p, "submitTransaction")'
       /\ lastTrade' # lastTrade => \E p \in Procs : Did("result", p, "submitTransaction")'
       /\ Count("emit", "trade")' <= 1]_vars
C6_Witness ==
    \E p \in Procs : Did("emit", p, "trade") /\ lastTrade = now /\ now > 0

C8_RegisteredForwards ==
    (op.call = "executePluginAction" /\ lastRegistered[op.name] # NoPlugin) =>
        /\ op.reply.handler \in PluginIds
        /\ (~op.reply.ok => op.reply.error[1] # "Plugin not found")
        /\ op.action = "calculateSwap" =>
              op.reply.ok /\ op.reply.quote.estimatedOutput = op.params.amount
        /\ op.action \notin {"getPoolInfo", "calculateSwap"} =>
              ~op.reply.ok /\ op.reply.error = <<"Unknown action", op.action>>
C8_Witness ==
    /\ op.call = "executePluginAction" /\ op.name = "liquidityPool"
    /\ op.action = "unknownAction"
    /\ lastRegistered["liquidityPool"] # NoPlugin
    /\ op.reply.error = <<"Unknown action", "unknownAction">>

\* C9: registerPlugin always succeeds, sets the entry of its name to its
\* plugin, whatever was there, and changes no other entry; a dispatch on a
\* registered name is handled by the plugin registered last under that name.
C9_LastWriteWins ==
    [][/\ \A n \in PluginNames, h \in PluginIds :
            RegisterPluginCall(n, h) =>
                /\ plugins'[n] = h
                /\ \A m \in PluginNames \ {n} : plugins'[m] = plugins[m]
       /\ (op'.call = "executePluginAction" /\ lastRegistered'[op'.name] # NoPlugin) =>
                op'.reply.handler = lastRegistered'[op'.name]]_vars
C9_Witness ==
    /\ op.call = "executePluginAction" /\ op.name \in replaced
    /\ op.reply.handler = 2 /\ lastRegistered[op.name] = 2
    /\ \E m \in PluginNames \ {op.name} : plugins[m] = 1

\* C10 (as claimed): getAccountBalance never fails; it answers the coin value
\* of the resource whose type equals coinType, and "0" when there is no such
\* resource or value, and "0" as well when the resource fetch fails.
ExactMatches(rs, c) == {i \in 1..Len(rs) : rs[i].type = c}
HeldValue(rs, c) ==
    IF \E i \in ExactMatches(rs, c) :
          /\ \A j \in ExactMatches(rs, c) : i <= j
          /\ rs[i].value \notin {Undefined, <<>>}
    THEN rs[CHOOSE i \in ExactMatches(rs, c) : \A j \in ExactMatches(rs, c) : i <= j].value
    ELSE <<"0">>
C10_NeverFails ==
    op.call = "getAccountBalance" =>
        /\ op.balance.ok
        /\ op.balance.value = IF op.fetch.ok THEN HeldValue(op.fetch.resources, op.coinType)
                              ELSE <<"0">>
\* C10 (amended): when the resource fetch succeeds getAccountBalance answers
\* the coin value of the first resource whose type equals coinType, and "0"
\* when there is none or its value is absent or empty; when the fetch fails
\* getAccountBalance fails with the fetch's error.
C10_BalanceOrFetchError ==
    op.call = "getAccountBalance" =>
        IF op.fetch.ok
        THEN /\ op.balance.ok
             /\ op.balance.value = HeldValue(op.fetch.resources, op.coinType)
        ELSE ~op.balance.ok /\ op.balance.error = <<RpcError>>
\* a resource whose type only contains coinType is not taken for it
C10_Witness ==
    /\ op.call = "getAccountBalance" /\ op.fetch.ok
    /\ op.coinType = <<"APT">>
    /\ ExactMatches(op.fetch.resources, op.coinType) = {}
    /\ \E i \in 1..Len(op.fetch.resources) :
          /\ Includes(op.fetch.resources[i].type, op.coinType)
          /\ op.fetch.resources[i].value = <<"2">>
    /\ op.balance.value = <<"0">>

\* C11: on an AptosAI constructed without a private key, or with the empty
\* string for it, submitTransaction fails with the account-not-initialized
\* error and issues no RPC call; with a key it issues generate, sign and submit
\* in that order for its payload, and an invocation that failed in generate
\* or in sign never issued the submit call.
TxOrder(pl) == <<Rpc("generateTransaction", pl), Rpc("signTransaction", pl),
                 Rpc("submitTransaction", pl)>>
C11_SubmitNeedsSigner ==
    \A p \in Submits :
        LET t == sub.tx[p] IN
        t.pc # "none" =>
            IF sub.key \in {Undefined, <<>>}
            THEN t.pc = "done" /\ t.calls = <<>> /\ t.result = Fail(<<NotInitialized>>)
            ELSE /\ Len(t.calls) \in 1..3
                 /\ t.calls = SubSeq(TxOrder(t.payload), 1, Len(t.calls))
                 /\ (t.pc = "done" /\ ~t.result.ok) =>
                        /\ t.result.error[1] = t.calls[Len(t.calls)][1]
                        /\ t.result.error[1] \in {"generateTransaction", "signTransaction"} =>
                              Rpc("submitTransaction", t.payload) \notin
                                  {t.calls[i] : i \in 1..Len(t.calls)}
                 /\ (t.pc = "done" /\ t.result.ok) => Len(t.calls) = 3
C11_Witness ==
    /\ sub.key = <<>>
    /\ \E p \in Submits : /\ sub.tx[p].pc = "done" /\ sub.tx[p].calls = <<>>
                           /\ sub.tx[p].result = Fail(<<NotInitialized>>)

\* C12: for every non-empty list of quotes whose outputAmount is a decimal
\* string, the selection returns a quote whose outputAmount, as an integer, no
\* other quote exceeds, and of the quotes with that amount the first in input
\* order; for the amounts 900, 950, 950 it returns the second quote.
AllDecimal(qs) == \A i \in 1..Len(qs) : qs[i] # Undefined
AmountOf(qs, i) == DigitsValue(qs[i])
C12_BestIsFirstMaximum ==
    (sel.done /\ sel.quotes # <<>> /\ AllDecimal(sel.quotes)) =>
        /\ sel.best \in 1..Len(sel.quotes)
        /\ \A j \in 1..Len(sel.quotes) :
              /\ AmountOf(sel.quotes, j) <= AmountOf(sel.quotes, sel.best)
              /\ j < sel.best => AmountOf(sel.quotes, j) < AmountOf(sel.quotes, sel.best)
        /\ sel.quotes = <<(<<"9", "0", "0">>), (<<"9", "5", "0">>), (<<"9", "5", "0">>)>> =>
              sel.best = 2
C12_Witness ==
    /\ sel.done /\ sel.best = 2
    /\ sel.quotes = <<(<<"9", "0", "0">>), (<<"9", "5", "0">>), (<<"9", "5", "0">>)>>

\* C13 (as claimed): with the LiquidityPoolPlugin registered as liquidityPool
\* and no failure of the advice call, suggestOptimalSwap dispatches one
\* calculateSwap per entry of its DEX list, selects a best quote and resolves
\* with {recommendation, quotes}, quotes holding one quote per entry in order.
C13_SwapCompletes ==
    (swap.pc = "done" /\ plugins["liquidityPool"] \in PluginIds /\ ~swap.adviceFailed) =>
        /\ swap.best \in 1..Len(Dexes)
        /\ swap.result.ok
        /\ swap.result.quotes = [i \in 1..Len(Dexes) |->
              [NoSwapQuote EXCEPT !.estimatedOutput = swap.amount,
                                  !.priceImpact = <<"0", ".", "1", "%">>]]

\* C14: the positions of analyzePortfolio are exactly the fetched resources
\* whose type contains "LiquidityPool", "Stake" or "Farm", each once and in
\* their original order, and the total handed on is the sum of data.value over
\* the positions that have one; for a LiquidityPool resource of value 100
\* followed by a Coin resource without value, the first alone is kept and the
\* total is 100.
Markers == {"LiquidityPool", "Stake", "Farm"}
Kept(rs) == {i \in 1..Len(rs) : \E m \in Markers : Includes(rs[i].type, <<m>>)}
Nth(S, k) == CHOOSE i \in S : Cardinality({j \in S : j <= i}) = k
Summable(rs) == \A i \in Kept(rs) : rs[i].value = Undefined \/ rs[i].value[1] \in Digits
RECURSIVE SumOver(_, _)
SumOver(rs, S) ==
    IF S = {} THEN 0
    ELSE LET i == CHOOSE j \in S : TRUE
         IN (IF rs[i].value = Undefined THEN 0 ELSE DigitsValue(rs[i].value))
            + SumOver(rs, S \ {i})
Scenario1 == <<Resource(<<"0x1::", "LiquidityPool", "::LP">>, <<"1", "0", "0">>),
               Resource(<<"0x1::", "Coin">>, Undefined)>>
C14_FilterAndSum ==
    (pf.resources = "ok" /\ pf.transactions = "ok") =>
        LET rs == pf.resourceList IN
        /\ Len(pf.positions) = Cardinality(Kept(rs))
        /\ \A k \in 1..Len(pf.positions) : pf.positions[k] = rs[Nth(Kept(rs), k)]
        /\ IF Summable(rs)
           THEN /\ pf.patternsCall # "none"
                /\ pf.total = SumOver(rs, Kept(rs))
                /\ pf.adviceCall # "none" => pf.adviceInput.total = SumOver(rs, Kept(rs))
           ELSE pf.patternsCall = "none" /\ pf.adviceCall = "none"
        /\ rs = Scenario1 => pf.positions = <<Scenario1[1]>> /\ pf.total = 100
C14_Witness ==
    /\ pf.resourceList = Scenario1 /\ pf.adviceCall = "pending"
    /\ pf.adviceInput.positions = <<Scenario1[1]>> /\ pf.adviceInput.total = 100

\* C15: analyzePortfolio resolves only when both fetches, the summation and
\* both completion calls succeeded; in every other case it rejects with an
\* error that starts with "Portfolio analysis failed" and carries no
\* positions, history or advice; after a failed fetch no completion call is
\* issued.
C15_NoPartialResult ==
    /\ pf.pc = "done" =>
        /\ pf.result.ok <=> /\ pf.resources = "ok" /\ pf.transactions = "ok"
                            /\ Summable(pf.resourceList)
                            /\ pf.patternsCall = "ok" /\ pf.adviceCall = "ok"
        /\ ~pf.result.ok =>
              /\ pf.result.error[1] = PAF
              /\ pf.result.positions = <<>> /\ pf.result.history = <<>>
              /\ pf.result.advice = <<>>
    /\ (pf.resources = "failed" \/ pf.transactions = "failed") =>
          pf.pc = "done" /\ pf.patternsCall = "none" /\ pf.adviceCall = "none"
C15_Witness ==
    /\ pf.pc = "done" /\ pf.resources = "ok" /\ pf.resourceList # <<>>
    /\ pf.transactions = "failed"
    /\ pf.result = [NoPfResult EXCEPT !.error = <<PAF, RpcError>>]
    /\ pf.patternsCall = "none"

\* C18 (as claimed): the advice-generation call receives the filtered
\* positions, the raw transaction list that was fetched and the summed total,
\* it is issued only after both fetches completed, and the history field of
\* the result is what the call received for the transactions.
C18_AdviceGetsRawTransactions ==
    /\ pf.adviceCall # "none" =>
          /\ pf.resources = "ok" /\ pf.transactions = "ok"
          /\ pf.adviceInput.positions = pf.positions
          /\ pf.adviceInput.patterns = pf.transactionList
          /\ pf.adviceInput.total = pf.total
    /\ (pf.pc = "done" /\ pf.result.ok) => pf.result.history = pf.adviceInput.patterns
\* C18 (amended): the advice-generation call receives the filtered positions,
\* the text that the preceding pattern-analysis call returned for the raw
\* transaction list, and the summed total; it is issued only after both
\* fetches and the pattern analysis completed, and the history field of the
\* result is that text.
C18_AdviceGetsPatterns ==
    /\ pf.adviceCall # "none" =>
          /\ pf.resources = "ok" /\ pf.transactions = "ok" /\ pf.patternsCall = "ok"
          /\ pf.patternsInput = pf.transactionList
          /\ pf.adviceInput.positions = [k \in 1..Cardinality(Kept(pf.resourceList)) |->
                                            pf.resourceList[Nth(Kept(pf.resourceList), k)]]
          /\ pf.adviceInput.patterns = pf.patterns /\ pf.patterns \in PatternTexts
          /\ pf.adviceInput.total = SumOver(pf.resourceList, Kept(pf.resourceList))
    /\ pf.patternsCall # "none" => pf.resources = "ok" /\ pf.transactions = "ok"
    /\ (pf.pc = "done" /\ pf.result.ok) =>
          pf.result.history = pf.adviceInput.patterns /\ pf.result.positions = pf.adviceInput.positions
C18_Witness ==
    /\ pf.pc = "done" /\ pf.result.ok
    /\ pf.transactionList = <<"0xt1", "0xt2">>
    /\ pf.result.history = <<"frequent swaps">>
    /\ Len(pf.adviceInput.positions) = 1 /\ Len(pf.resourceList) = 2

\* C16 (as claimed): whatever the interleaving of start(), stop() and a further
\* start(), at most one polling loop is active and at most one of the loops'
\* trade cycles is in flight.
C16_OneLoopOneCycle ==
    /\ Cardinality({p \in Loops : pc[p] # "none"}) <= 1
    /\ Cardinality({p \in Loops : pc[p] \in InCycle}) <= 1

\* C17 (as claimed): a loop begins a cycle after an earlier cycle of its own
\* only when its 30-second timer has elapsed, whether the earlier cycle
\* resolved or failed.
C17_WaitBetweenCycles ==
    [][\A p \in Loops :
        (pc[p] # "none" /\ Did("call", p, "monitorAndTrade")') => pc[p] = "fired"]_vars

\* C19 (as claimed): a submission that succeeds comes at least minTradeInterval
\* after the successful submission before it (lastTrade holds its time), for
\* loops, restarted loops and direct monitorAndTrade() calls.
C19_SubmissionsSpaced ==
    [][\A p \in Procs :
        Did("result", p, "submitTransaction")' =>
            lastTrade = Null \/ now - lastTrade >= MinTradeInterval]_vars

\* C20 (as claimed): when no start() invocation is pending (each has resolved
\* or rejected) the bot is not RUNNING.
C20_RunningOnlyWhileStartPending ==
    (\A p \in Loops : pc[p] = "none") => ~isRunning

\* C21: lastTrade changes only in the step in which a cycle's submission
\* returned a transaction identifier, and then to the current time, later than
\* the time it held; a cycle that is skipped, that decides not to trade or
\* that fails (market data, decision, validation, submission) settles with
\* lastTrade as it was, and start() and stop() leave it as it was.
C21_LastTradeFrame ==
    [][/\ lastTrade' # lastTrade =>
            /\ \E p \in Procs : pc[p] = "submit" /\ Did("result", p, "submitTransaction")'
            /\ lastTrade' = now
            /\ lastTrade = Null \/ lastTrade' > lastTrade
       /\ \A p \in Procs :
            /\ Did("reject", p, "monitorAndTrade")' => lastTrade' = lastTrade
            /\ (Did("resolve", p, "monitorAndTrade")' /\ ~Did("result", p, "submitTransaction")') =>
                  lastTrade' = lastTrade
            /\ (Did("emit", p, "started")' \/ Did("reject", p, "start")'
                   \/ Did("resolve", p, "start")') => lastTrade' = lastTrade
       /\ Did("emit", 0, "stopped")' => lastTrade' = lastTrade]_vars
\* a submission failed after an earlier trade, whose time lastTrade still holds
C21_Witness ==
    /\ lastTrade # Null /\ lastTrade < now
    /\ \E p \in Procs : Did("reject", p, "submitTransaction")

\* C22: no step removes a name from the registry: a name that holds a plugin
\* holds one after every step, executePluginAction leaves the registry as it
\* was whether it resolves or rejects, and a dispatch on a name that
\* registerPlugin was ever called for is never answered 'Plugin not found'.
C22_RegistryNeverShrinks ==
    [][/\ \A n \in PluginNames : plugins[n] # NoPlugin => plugins'[n] # NoPlugin
       /\ \A n \in PluginNames : lastRegistered'[n] # NoPlugin => plugins'[n] # NoPlugin
       /\ op'.call = "executePluginAction" =>
            /\ plugins' = plugins
            /\ plugins[op'.name] # NoPlugin =>
                  op'.reply.error # <<"Plugin not found", op'.name>>]_vars
\* every name is registered, one of them twice, and a dispatch was rejected
\* by the plugin
C22_Witness ==
    /\ \A n \in PluginNames : plugins[n] # NoPlugin
    /\ replaced # {}
    /\ op.call = "executePluginAction" /\ ~op.reply.ok
    /\ op.reply.handler = plugins[op.name]

\* C23 (as claimed): 'started' is emitted only on a step from IDLE to RUNNING
\* and 'stopped' only on a step from RUNNING to IDLE, so that stop() on a bot
\* that is IDLE emits nothing; a step of monitorAndTrade neither changes
\* isRunning nor emits either notification.
CycleStep(p) ==
    \/ pc[p] \in InCycle /\ pc'[p] # pc[p]
    \/ p \in Directs /\ Did("call", p, "monitorAndTrade")'
CycleStepsKeepState ==
    \A p \in Procs : CycleStep(p) =>
        /\ isRunning' = isRunning
        /\ Count("emit", "started")' = 0 /\ Count("emit", "stopped")' = 0
C23_StartedStoppedAlternate ==
    [][/\ Count("emit", "started")' > 0 => ~isRunning /\ isRunning'
       /\ Count("emit", "stopped")' > 0 => isRunning /\ ~isRunning'
       /\ CycleStepsKeepState]_vars
\* C23 (amended): 'started' is emitted only on a step from IDLE to RUNNING;
\* every stop() emits 'stopped' and leaves the bot IDLE, also when it was IDLE
\* already; isRunning changes only in a step that emits the matching
\* notification; a step of monitorAndTrade neither changes isRunning nor emits
\* either notification.
C23_StartedOnlyFromIdle ==
    [][/\ Count("emit", "started")' > 0 => ~isRunning /\ isRunning'
       /\ Count("emit", "stopped")' > 0 => ~isRunning'
       /\ Stop => out' = <<Ev("emit", 0, "stopped", <<>>)>>
       /\ (~isRunning /\ isRunning') => Count("emit", "started")' = 1
       /\ (isRunning /\ ~isRunning') => Count("emit", "stopped")' = 1
       /\ CycleStepsKeepState]_vars
\* stop() on a bot whose loop has already left start(): it was IDLE, having
\* run and traded before
C23_Witness ==
    /\ errorListener /\ ~isRunning /\ lastTrade # Null
    /\ \A p \in Loops : pc[p] = "none"
    /\ out = <<Ev("emit", 0, "stopped", <<>>)>>

\* C24 (safety part): once stop() was called on a RUNNING bot and as long as
\* start() is not called again, the bot is IDLE and the loops of start()
\* submit at most one further transaction.
C24_AtMostOneSubmissionAfterStop ==
    sinceStop # Null => ~isRunning /\ sinceStop <= 1
====
